---- MODULE Spec2Model ----
(***************************************************************************)
(* A model of the Brainfuck interpreter of src/brainfuck.py.               *)
(*                                                                         *)
(* The interpreter is a TensorFlow graph: run_program is a tf.while_loop   *)
(* over the State tuple, step_program a tf.case over the instruction byte. *)
(* Tensors are modelled by their values: a uint8 vector is a sequence (or  *)
(* a function on 0..n-1) of numbers in 0..255, a tf.string a sequence of   *)
(* bytes.  Indexing a vector with a scalar tensor, t[i], is a strided      *)
(* slice with a shrunk axis: an index i in -n..-1 selects element n+i, an  *)
(* index outside -n..n-1 fails the session run.  A failed run is the       *)
(* outcome pc = "error".                                                   *)
(***************************************************************************)
EXTENDS Integers, Sequences, FiniteSets, TLC

VARIABLES code, state, pc, err, result, steps, dots, start, probe

vars == <<code, state, pc, err, result, steps, dots, start, probe>>

----------------------------------------------------------------------------
(* Bounds of the model.                                                    *)

\* longest enumerated program
MaxLen == 3
\* longest enumerated input
MaxIn == 2
\* largest enumerated memory_size
MaxMem == 2
\* most instructions executed in one run of an enumerated program
MaxSteps == 520
\* most instructions executed in one run of the example program
MaxHelloSteps == 950
\* largest starting cell of the copy-loop scenario
MaxStart == 5
\* longest program whose brackets are resolved one by one
MaxScanLen == 4

----------------------------------------------------------------------------
(* The instruction bytes: ord() of the characters of step_program's conds. *)

OrdLt == 60
OrdGt == 62
OrdPlus == 43
OrdMinus == 45
OrdOpen == 91
OrdClose == 93
OrdComma == 44
OrdDot == 46

Byte == 0..255

DefaultMemorySize == 4096

----------------------------------------------------------------------------
(* Tensor indexing t[i] with a scalar index.                               *)

\* the strided slice accepts i when -n <= i < n
SliceOk(n, i) == -n <= i /\ i < n

\* and selects this 0-based element
SliceIdx(n, i) == IF i < 0 THEN n + i ELSE i

\* code[i] and inputs[i] for a sequence; 0 stands for a failed slice and is
\* never used: every use is guarded by SliceOk
At(seq, i) == IF SliceOk(Len(seq), i) THEN seq[SliceIdx(Len(seq), i) + 1] ELSE 0

----------------------------------------------------------------------------
(* class State                                                             *)

State(code_ptr, mem_ptr, input_ptr, mem, inputs, output_str) ==
    [code_ptr |-> code_ptr, mem_ptr |-> mem_ptr, input_ptr |-> input_ptr,
     mem |-> mem, inputs |-> inputs, output_str |-> output_str]

init_state(input_str, memory_size) ==
    State(0, memory_size \div 2, 0, [i \in 0..(memory_size - 1) |-> 0],
          input_str, <<>>)

mem_size(s) == Cardinality(DOMAIN s.mem)

jump(s, addr) == [s EXCEPT !.code_ptr = addr]

next(s) == jump(s, s.code_ptr + 1)

add_mem_ptr(s, offset) == [s EXCEPT !.mem_ptr = s.mem_ptr + offset]

add_input_ptr(s, offset) == [s EXCEPT !.input_ptr = s.input_ptr + offset]

\* self.mem[self.mem_ptr]: whether the slice succeeds, and its value
read_mem_ok(s) == SliceOk(mem_size(s), s.mem_ptr)

read_mem(s) == IF read_mem_ok(s) THEN s.mem[SliceIdx(mem_size(s), s.mem_ptr)] ELSE 0

\* write_mem as it would be with the tiled value not selected by tf.where
write_mem_fill(s, value) == [s EXCEPT !.mem = [i \in DOMAIN s.mem |-> value]]

\* tf.where(tf.equal(tf.range(mem_size), mem_ptr), value, mem): the cell
\* whose index equals mem_ptr is replaced; no cell is when none equals it
write_mem(s, value) ==
    [s EXCEPT !.mem = [i \in DOMAIN s.mem |-> IF i = s.mem_ptr THEN value ELSE s.mem[i]]]

\* add_mem as it would be with the sum not reduced to a uint8
add_mem_nowrap(s, value) == write_mem(s, read_mem(s) + value)

\* uint8 addition
add_mem(s, value) == write_mem(s, (read_mem(s) + value) % 256)

\* output_table[value]: chr(i) as the string constant stores it, UTF-8
output_table(value) ==
    IF value < 128 THEN <<value>>
    ELSE <<192 + (value \div 64), 128 + (value % 64)>>

append_output(s, value) == [s EXCEPT !.output_str = s.output_str \o output_table(value)]

----------------------------------------------------------------------------
(* matching_bracket: the counting scan, a tf.while_loop over (c, p).       *)

\* scan_counter as it would be if the scan stopped at the first bracket of
\* the kind it looks for, nesting ignored
scan_counter_flat(c, inst, direction) ==
    IF direction = 1 /\ inst = OrdClose THEN 0
    ELSE IF direction = -1 /\ inst = OrdOpen THEN 0
    ELSE c

\* scan_counter as it would be with the direction left out of the counting
scan_counter_undirected(c, inst, direction) ==
    IF inst = OrdOpen THEN c + 1
    ELSE IF inst = OrdClose THEN c - 1
    ELSE c

\* scan_counter as it would be with the two signs exchanged
scan_counter_swapped(c, inst, direction) ==
    IF inst = OrdOpen THEN c - direction
    ELSE IF inst = OrdClose THEN c + direction
    ELSE c

\* one iteration of the loop body: the counter after examining code[q]
scan_counter(c, inst, direction) ==
    IF inst = OrdOpen THEN c + direction
    ELSE IF inst = OrdClose THEN c - direction
    ELSE c

\* the loop from (c, p): the scan stops with c <= 0 and yields p, or the
\* slice code[p + direction] fails.  seen lists the indices examined.
RECURSIVE scan(_, _, _, _, _)
scan(prog, c, p, direction, seen) ==
    IF ~(c > 0) THEN [ok |-> TRUE, pos |-> p, seen |-> seen]
    ELSE IF ~SliceOk(Len(prog), p + direction)
         THEN [ok |-> FALSE, pos |-> p + direction, seen |-> seen]
    ELSE scan(prog, scan_counter(c, At(prog, p + direction), direction),
              p + direction, direction, Append(seen, p + direction))

matching_bracket(prog, code_ptr, direction) == scan(prog, 1, code_ptr, direction, <<>>)

----------------------------------------------------------------------------
(* The instruction handlers.  Each yields [err, st]: err = "none" and the  *)
(* new state, or the slice that failed the run.                            *)

Ok(s) == [err |-> "none", st |-> s]

Fail(kind, s) == [err |-> kind, st |-> s]

instruction_equals(inst, options) == inst \in options

\* adjust_mem_pointer as it would be if a move off the tape failed the run
adjust_mem_pointer_checked(inst, s) ==
    LET offset == IF instruction_equals(inst, {OrdLt}) THEN -1 ELSE 1
    IN  IF 0 <= s.mem_ptr + offset /\ s.mem_ptr + offset < mem_size(s)
        THEN Ok(next(add_mem_ptr(s, offset))) ELSE Fail("bounds", s)

adjust_mem_pointer(inst, s) ==
    LET offset == IF instruction_equals(inst, {OrdLt}) THEN -1 ELSE 1
    IN  Ok(next(add_mem_ptr(s, offset)))

\* adjust_mem as it would be without the final next()
adjust_mem_stay(inst, s) ==
    LET offset == IF instruction_equals(inst, {OrdMinus}) THEN 255 ELSE 1
    IN  IF read_mem_ok(s) THEN Ok(add_mem(s, offset)) ELSE Fail("bounds", s)

adjust_mem(inst, s) ==
    LET offset == IF instruction_equals(inst, {OrdMinus}) THEN 255 ELSE 1
    IN  IF read_mem_ok(s) THEN Ok(next(add_mem(s, offset))) ELSE Fail("bounds", s)

\* loop_open as it would be jumping two past the matching ']'
loop_open_past(prog, inst, s) ==
    IF ~read_mem_ok(s) THEN Fail("bounds", s)
    ELSE IF read_mem(s) = 0
         THEN LET m == matching_bracket(prog, s.code_ptr, 1)
              IN  IF m.ok THEN Ok(jump(s, m.pos + 2)) ELSE Fail("bracket", s)
    ELSE Ok(jump(s, s.code_ptr + 1))

\* loop_open as it would be jumping onto the matching ']', not past it
loop_open_onto(prog, inst, s) ==
    IF ~read_mem_ok(s) THEN Fail("bounds", s)
    ELSE IF read_mem(s) = 0
         THEN LET m == matching_bracket(prog, s.code_ptr, 1)
              IN  IF m.ok THEN Ok(jump(s, m.pos)) ELSE Fail("bracket", s)
    ELSE Ok(jump(s, s.code_ptr + 1))

loop_open(prog, inst, s) ==
    IF ~read_mem_ok(s) THEN Fail("bounds", s)
    ELSE IF read_mem(s) = 0
         THEN LET m == matching_bracket(prog, s.code_ptr, 1)
              IN  IF m.ok THEN Ok(jump(s, m.pos + 1)) ELSE Fail("bracket", s)
    ELSE Ok(jump(s, s.code_ptr + 1))

\* loop_close as it would be with its condition inverted
loop_close_inverted(prog, inst, s) ==
    IF ~read_mem_ok(s) THEN Fail("bounds", s)
    ELSE IF read_mem(s) = 0
         THEN LET m == matching_bracket(prog, s.code_ptr, -1)
              IN  IF m.ok THEN Ok(jump(s, m.pos + 1)) ELSE Fail("bracket", s)
    ELSE Ok(jump(s, s.code_ptr + 1))

loop_close(prog, inst, s) ==
    IF ~read_mem_ok(s) THEN Fail("bounds", s)
    ELSE IF read_mem(s) # 0
         THEN LET m == matching_bracket(prog, s.code_ptr, -1)
              IN  IF m.ok THEN Ok(jump(s, m.pos + 1)) ELSE Fail("bracket", s)
    ELSE Ok(jump(s, s.code_ptr + 1))

\* read_input as it would be with end of input read as 255
read_input_eof_ff(inst, s) ==
    LET in_byte == IF s.input_ptr < Len(s.inputs) THEN At(s.inputs, s.input_ptr) ELSE 255
    IN  Ok(next(add_input_ptr(write_mem(s, in_byte), 1)))

read_input(inst, s) ==
    LET in_byte == IF s.input_ptr < Len(s.inputs) THEN At(s.inputs, s.input_ptr) ELSE 0
    IN  Ok(next(add_input_ptr(write_mem(s, in_byte), 1)))

write_output(inst, s) ==
    IF read_mem_ok(s) THEN Ok(next(append_output(s, read_mem(s)))) ELSE Fail("bounds", s)

----------------------------------------------------------------------------
(* step_program: tf.case over the six predicates, in order, with a default *)

\* conds as it would be with ('+', '-') taken as the range '+'..'-'
conds_range == <<{OrdLt, OrdGt}, OrdPlus..OrdMinus, {OrdOpen}, {OrdClose}, {OrdComma}, {OrdDot}>>

\* conds, as sets of bytes
conds == <<{OrdLt, OrdGt}, {OrdPlus, OrdMinus}, {OrdOpen}, {OrdClose}, {OrdComma}, {OrdDot}>>

\* preds: which of the six predicates hold for inst
preds(inst) == {k \in DOMAIN conds : instruction_equals(inst, conds[k])}

\* the branch tf.case runs: the first predicate that holds, 0 for the default
branch(inst) ==
    IF preds(inst) = {} THEN 0
    ELSE CHOOSE k \in preds(inst) : \A j \in preds(inst) : k <= j

\* the handler of branch k
raw_funcs(k, prog, inst, s) ==
    CASE k = 1 -> adjust_mem_pointer(inst, s)
      [] k = 2 -> adjust_mem(inst, s)
      [] k = 3 -> loop_open(prog, inst, s)
      [] k = 4 -> loop_close(prog, inst, s)
      [] k = 5 -> read_input(inst, s)
      [] k = 6 -> write_output(inst, s)
      [] OTHER -> Ok(next(s))

\* inst = code[state.code_ptr]
fetch_ok(prog, s) == SliceOk(Len(prog), s.code_ptr)

fetch(prog, s) == At(prog, s.code_ptr)

step_program(prog, s) ==
    IF ~fetch_ok(prog, s) THEN Fail("fetch", s)
    ELSE raw_funcs(branch(fetch(prog, s)), prog, fetch(prog, s), s)

----------------------------------------------------------------------------
(* The programs and inputs of the model.                                   *)

\* a byte that is no instruction: the default of the dispatch
OrdOther == CHOOSE b \in Byte : preds(b) = {}

\* the eight instructions and one byte that is none
Alphabet == {OrdLt, OrdGt, OrdPlus, OrdMinus, OrdOpen, OrdClose, OrdComma, OrdDot, OrdOther}

\* every program of at most MaxLen bytes
ShortPrograms == UNION {[1..n -> Alphabet] : n \in 0..MaxLen}

\* longer programs: a backward scan that runs below position 0, a nested
\* loop taken twice, a copy loop, an echo of the input, a nested loop
\* skipped
Scenarios ==
    { <<OrdClose, OrdPlus, OrdClose, OrdOpen, OrdMinus, OrdOpen>>,
      <<OrdPlus, OrdPlus, OrdOpen, OrdLt, OrdOpen, OrdClose, OrdGt, OrdMinus, OrdClose>>,
      <<OrdPlus, OrdOpen, OrdLt, OrdPlus, OrdGt, OrdMinus, OrdClose, OrdLt, OrdDot>>,
      <<OrdComma, OrdOpen, OrdDot, OrdComma, OrdClose>>,
      <<OrdOpen, OrdOpen, OrdClose, OrdOther, OrdClose, OrdPlus>> }

Programs == ShortPrograms \cup Scenarios

\* the inputs: the prefixes of one byte string
InputPool == <<65, 200, 0, 7>>

Inputs == {SubSeq(InputPool, 1, n) : n \in 0..MaxIn}

MemorySizes == 1..MaxMem

\* show_example's source_code, in its three pieces
HelloLoop ==
    <<
       43, 43, 43, 43, 43, 43, 43, 43, 91, 62, 43, 43, 43, 43, 91, 62, 43,
       43, 62, 43, 43, 43, 62, 43, 43, 43, 62, 43, 60, 60, 60, 60, 45, 93,
       62, 43, 62, 43, 62, 45, 62, 62, 43, 91, 60, 93, 60, 45, 93 >>

HelloPrint ==
    <<
       62, 62, 46, 62, 45, 45, 45, 46, 43, 43, 43, 43, 43, 43, 43, 46, 46,
       43, 43, 43, 46, 62, 62, 46, 60, 45, 46, 60, 46, 43, 43, 43, 46, 45,
       45, 45, 45, 45, 45, 46, 45, 45, 45, 45, 45, 45, 45, 45, 46, 62, 62,
       43, 46 >>

HelloEcho == <<44, 91, 46, 44, 93>>

HelloProgram == HelloLoop \o HelloPrint

ExampleProgram == HelloProgram \o HelloEcho

\* the program of the copy-loop scenario, +[>+<-]
CopyLoop == <<OrdPlus, OrdOpen, OrdGt, OrdPlus, OrdLt, OrdMinus, OrdClose>>

----------------------------------------------------------------------------
(* run_program: the while loop over the State tuple.                       *)

\* the model stops a run after this many instructions
StepCap == IF code \in {HelloProgram, ExampleProgram} THEN MaxHelloSteps ELSE MaxSteps

\* no matching_bracket loop is followed
NoProbe == [phase |-> "idle", from |-> 0, direction |-> 0, c |-> 0, p |-> 0,
            leg |-> 0, origin |-> 0, iters |-> 0]

\* the state run_program starts from
Begin(prog, s) ==
    /\ code = prog
    /\ state = s
    /\ pc = "running"
    /\ err = "none"
    /\ result = <<>>
    /\ steps = 0
    /\ dots = <<>>
    /\ start = s
    /\ probe = NoProbe

Init ==
    \E prog \in Programs, input_str \in Inputs, memory_size \in MemorySizes :
        Begin(prog, init_state(input_str, memory_size))

\* the example of show_example: the program without and with its echo loop
InitHello ==
    \/ Begin(HelloProgram, init_state(<<>>, DefaultMemorySize))
    \/ \E input_str \in Inputs :
           Begin(ExampleProgram, init_state(input_str, DefaultMemorySize))

\* step_program applied to a State whose current cell holds v, whose other
\* cells are 0 and whose next cell is on the tape
InitCopy ==
    \E v \in 0..MaxStart, memory_size \in 2..(MaxMem + 1) :
        \E mem_ptr \in 0..(memory_size - 2) :
            Begin(CopyLoop,
                  State(0, mem_ptr, 0,
                        [i \in 0..(memory_size - 1) |-> IF i = mem_ptr THEN v ELSE 0],
                        <<>>, <<>>))

\* the loop condition holds: one step_program
Step ==
    /\ pc = "running"
    /\ state.code_ptr < Len(code)
    /\ steps < StepCap
    /\ LET r == step_program(code, state)
           inst == fetch(code, state)
       IN  /\ state' = r.st
           /\ pc' = IF r.err = "none" THEN "running" ELSE "error"
           /\ err' = r.err
           /\ dots' = IF r.err = "none" /\ inst = OrdDot
                      THEN Append(dots, read_mem(state)) ELSE dots
    /\ steps' = steps + 1
    /\ UNCHANGED <<code, result, start, probe>>

\* the loop condition fails: run_program returns output_str
Halt ==
    /\ pc = "running"
    /\ ~(state.code_ptr < Len(code))
    /\ pc' = "done"
    /\ result' = state.output_str
    /\ UNCHANGED <<code, state, err, steps, dots, start, probe>>

Next == Step \/ Halt

Spec == Init /\ [][Next]_vars

SpecHello == InitHello /\ [][Next]_vars

SpecCopy == InitCopy /\ [][Next]_vars

----------------------------------------------------------------------------
(* matching_bracket followed one loop iteration at a time: probe holds the *)
(* loop variables (c, p) of the tf.while_loop, the bracket the scan began  *)
(* at and, for the way back, the bracket the first scan began at.          *)

\* every program of brackets and one other byte, balanced or not
ScanPrograms == UNION {[1..n -> {OrdOpen, OrdClose, OrdOther}] : n \in 0..MaxScanLen}

InitScan ==
    /\ code \in ScanPrograms
    /\ state = init_state(<<>>, 1)
    /\ pc = "scan"
    /\ err = "none"
    /\ result = <<>>
    /\ steps = 0
    /\ dots = <<>>
    /\ start = state
    /\ probe = NoProbe

\* the direction loop_open and loop_close give the scan from a bracket
direction_of(inst) == IF inst = OrdOpen THEN 1 ELSE -1

\* loop_open or loop_close calls matching_bracket(code, code_ptr, direction)
\* at a bracket: counter = 1, p = code_ptr
ScanBegin ==
    /\ probe.phase = "idle"
    /\ \E code_ptr \in 0..(Len(code) - 1) :
           /\ At(code, code_ptr) \in {OrdOpen, OrdClose}
           /\ probe' = [phase |-> "loop", from |-> code_ptr,
                        direction |-> direction_of(At(code, code_ptr)),
                        c |-> 1, p |-> code_ptr, leg |-> 1, origin |-> code_ptr,
                        iters |-> 0]
    /\ UNCHANGED <<code, state, pc, err, result, steps, dots, start>>

\* the loop condition c > 0 holds: the body examines code[p + direction]
ScanBody ==
    /\ probe.phase = "loop"
    /\ probe.c > 0
    /\ LET q == probe.p + probe.direction
       IN  IF SliceOk(Len(code), q)
           THEN probe' = [probe EXCEPT
                             !.c = scan_counter(probe.c, At(code, q), probe.direction),
                             !.p = q,
                             !.iters = probe.iters + 1]
           ELSE probe' = [probe EXCEPT !.phase = "failed", !.p = q]
    /\ UNCHANGED <<code, state, pc, err, result, steps, dots, start>>

\* the loop condition fails: matching_bracket returns p
ScanExit ==
    /\ probe.phase = "loop"
    /\ ~(probe.c > 0)
    /\ probe' = [probe EXCEPT !.phase = "found"]
    /\ UNCHANGED <<code, state, pc, err, result, steps, dots, start>>

\* the bracket found is resolved in its turn, the other way
ScanReturn ==
    /\ probe.phase = "found"
    /\ probe.leg = 1
    /\ At(code, probe.p) \in {OrdOpen, OrdClose}
    /\ probe' = [probe EXCEPT !.phase = "loop", !.from = probe.p,
                              !.direction = direction_of(At(code, probe.p)),
                              !.c = 1, !.leg = 2, !.iters = 0]
    /\ UNCHANGED <<code, state, pc, err, result, steps, dots, start>>

NextScan == ScanBegin \/ ScanBody \/ ScanExit \/ ScanReturn

SpecScan == InitScan /\ [][NextScan]_vars

----------------------------------------------------------------------------
(* Vocabulary of the properties.                                           *)

\* the run loop is about to execute an instruction
Running == pc = "running" /\ state.code_ptr < Len(code)

\* that instruction
Inst == fetch(code, state)

\* mem_ptr addresses a cell of the tape
InRange == 0 <= state.mem_ptr /\ state.mem_ptr < Cardinality(DOMAIN state.mem)

\* the 1-based position of the instruction in the program
InstPos == (IF state.code_ptr < 0 THEN Len(code) + state.code_ptr ELSE state.code_ptr) + 1

Recognized == {OrdLt, OrdGt, OrdPlus, OrdMinus, OrdOpen, OrdClose, OrdComma, OrdDot}

\* opening minus closing brackets among positions i..j of prog
Balance(prog, i, j) ==
    Cardinality({k \in i..j : prog[k] = OrdOpen}) - Cardinality({k \in i..j : prog[k] = OrdClose})

\* the '[' at position i has no structurally matching ']' after it
NoCloseFor(prog, i) == \A j \in i..Len(prog) : Balance(prog, i, j) > 0

----------------------------------------------------------------------------
(* C1: when run_program halts without error, the returned output is the    *)
(* sequence of cell values read by the executed '.' instructions, in       *)
(* order, one byte each.  It fails: a cell value of 128 or more is         *)
(* appended as two bytes (program -. returns the bytes 195 191).           *)
C1_OutputIsCellValues == pc = "done" => result = dots

----------------------------------------------------------------------------
(* C2: a ',' step never fails and advances code_ptr by exactly 1; with     *)
(* mem_ptr on the tape it stores inputs[input_ptr] while input remains and *)
(* 0 once it is exhausted, and a consuming read moves input_ptr on by 1,   *)
(* so successive reads take the input bytes left to right.                 *)
C2_ReadStep ==
    (Running /\ Inst = OrdComma) =>
        LET in_byte == IF state.input_ptr < Len(state.inputs)
                       THEN state.inputs[state.input_ptr + 1] ELSE 0
        IN  /\ pc' = "running"
            /\ state'.code_ptr = state.code_ptr + 1
            /\ InRange => state'.mem[state.mem_ptr] = in_byte
            /\ state.input_ptr < Len(state.inputs) => state'.input_ptr = state.input_ptr + 1

C2_ReadInput == [][C2_ReadStep]_vars

\* ,,, has read 65 and 200 and then the exhausted input
C2_Witness ==
    /\ pc = "running"
    /\ code = <<OrdComma, OrdComma, OrdComma>>
    /\ state.code_ptr = 3
    /\ state.inputs = <<65, 200>>
    /\ state.mem[state.mem_ptr] = 0

----------------------------------------------------------------------------
(* C3: every cell is in 0..255 in every reachable state, and a '+' or '-'  *)
(* step on a cell of the tape holding v leaves (v + 1) mod 256 or          *)
(* (v - 1) mod 256 in it.                                                  *)
C3_CellsAreBytes == \A i \in DOMAIN state.mem : state.mem[i] \in Byte

C3_ArithStep ==
    (Running /\ Inst \in {OrdPlus, OrdMinus} /\ InRange) =>
        LET v == state.mem[state.mem_ptr]
        IN  /\ pc' = "running"
            /\ state'.mem[state.mem_ptr] =
                   IF Inst = OrdPlus THEN (v + 1) % 256 ELSE (v + 255) % 256
            /\ (v = 255 /\ Inst = OrdPlus) => state'.mem[state.mem_ptr] = 0
            /\ (v = 0 /\ Inst = OrdMinus) => state'.mem[state.mem_ptr] = 255

C3_CellArithmeticWraps == []C3_CellsAreBytes /\ [][C3_ArithStep]_vars

\* -+ has taken the cell from 0 to 255 and back to 0
C3_Witness ==
    /\ pc = "running"
    /\ Len(code) >= 2
    /\ code[1] = OrdMinus
    /\ code[2] = OrdPlus
    /\ state.code_ptr = 2
    /\ InRange
    /\ state.mem[state.mem_ptr] = 0

----------------------------------------------------------------------------
(* C4: a step on a byte that is no instruction only advances code_ptr; at  *)
(* most one predicate of the dispatch holds for any byte, and a step on an *)
(* instruction has the effect of its own handler and of no other.          *)
C4_DispatchStep ==
    Running =>
        /\ Cardinality(preds(Inst)) <= 1
        /\ Inst \notin Recognized =>
               /\ pc' = "running"
               /\ state' = [state EXCEPT !.code_ptr = state.code_ptr + 1]
        /\ (Inst \in {OrdLt, OrdGt} /\ pc' = "running") =>
               state' = [state EXCEPT !.code_ptr = state.code_ptr + 1,
                                      !.mem_ptr = IF Inst = OrdLt THEN @ - 1 ELSE @ + 1]
        /\ (Inst \in {OrdPlus, OrdMinus} /\ pc' = "running") =>
               /\ state'.code_ptr = state.code_ptr + 1
               /\ [state' EXCEPT !.code_ptr = 0, !.mem = <<>>]
                      = [state EXCEPT !.code_ptr = 0, !.mem = <<>>]
        /\ (Inst \in {OrdOpen, OrdClose} /\ pc' = "running") =>
               [state' EXCEPT !.code_ptr = 0] = [state EXCEPT !.code_ptr = 0]
        /\ (Inst = OrdComma /\ pc' = "running") =>
               /\ state'.code_ptr = state.code_ptr + 1
               /\ state'.input_ptr = state.input_ptr + 1
               /\ [state' EXCEPT !.code_ptr = 0, !.input_ptr = 0, !.mem = <<>>]
                      = [state EXCEPT !.code_ptr = 0, !.input_ptr = 0, !.mem = <<>>]
        /\ (Inst = OrdDot /\ pc' = "running") =>
               /\ state'.code_ptr = state.code_ptr + 1
               /\ Len(state'.output_str) > Len(state.output_str)
               /\ [state' EXCEPT !.code_ptr = 0, !.output_str = <<>>]
                      = [state EXCEPT !.code_ptr = 0, !.output_str = <<>>]

C4_Dispatch == [][C4_DispatchStep]_vars

\* a byte that is no instruction has been stepped over, after a ',' that
\* stored an input byte
C4_Witness ==
    /\ pc = "running"
    /\ code = <<OrdComma, OrdOther>>
    /\ state.code_ptr = 2
    /\ state.input_ptr = 1
    /\ InRange
    /\ state.mem[state.mem_ptr] = 65

----------------------------------------------------------------------------
(* C5: a '[' with no structurally matching ']', executed with the current  *)
(* cell 0, fails the run in the bracket scan.  It fails: after a backward  *)
(* scan has run below position 0 (C14) code_ptr is negative, and the       *)
(* forward scan of ]+][-[ from its last '[' at code_ptr -1 finds the ']'   *)
(* at position 0.                                                          *)
C5_UnmatchedOpenStep ==
    (/\ Running
     /\ Inst = OrdOpen
     /\ InRange
     /\ state.mem[state.mem_ptr] = 0
     /\ NoCloseFor(code, InstPos)) => (pc' = "error" /\ err' = "bracket")

C5_UnmatchedOpenFails == [][C5_UnmatchedOpenStep]_vars

----------------------------------------------------------------------------
(* C6: an instruction that reads the current cell ('.', '[', ']', '+',     *)
(* '-'), executed with mem_ptr off the tape, fails the run.  It fails:     *)
(* mem_ptr in -memory_size..-1 reads the cell memory_size + mem_ptr.       *)
C6_OutOfRangeReadStep ==
    (/\ Running
     /\ Inst \in {OrdDot, OrdOpen, OrdClose, OrdPlus, OrdMinus}
     /\ ~InRange) => (pc' = "error" /\ err' = "bounds")

C6_OutOfRangeReadFails == [][C6_OutOfRangeReadStep]_vars

----------------------------------------------------------------------------
(* C7: a ',' executed with mem_ptr off the tape fails the run.  It fails:  *)
(* the write replaces no cell and the run goes on.                         *)
C7_OutOfRangeWriteStep ==
    (Running /\ Inst = OrdComma /\ ~InRange) => (pc' = "error" /\ err' = "bounds")

C7_OutOfRangeWriteFails == [][C7_OutOfRangeWriteStep]_vars

----------------------------------------------------------------------------
(* C8, under SpecHello: the first two pieces of show_example's source_code *)
(* halt on the empty input and return the 12 bytes "Hello World!"; with    *)
(* the echo loop and an input without a zero byte the run returns them     *)
(* followed by each input byte in order, a byte below 128 as itself and a  *)
(* byte b of 128 or more as the two bytes 192 + b / 64, 128 + b mod 64.    *)
HelloWorld == <<72, 101, 108, 108, 111, 32, 87, 111, 114, 108, 100, 33>>

ZeroFree(input) == \A i \in DOMAIN input : input[i] # 0

RECURSIVE Echoed(_)
Echoed(input) ==
    IF input = <<>> THEN <<>>
    ELSE (IF Head(input) < 128 THEN <<Head(input)>>
          ELSE <<192 + (Head(input) \div 64), 128 + (Head(input) % 64)>>)
         \o Echoed(Tail(input))

C8_HelloWorld ==
    /\ pc # "error"
    /\ (pc = "running" /\ steps = StepCap) => ~(state.code_ptr < Len(code))
    /\ pc = "done" =>
        /\ (code = HelloProgram /\ state.inputs = <<>>) => result = HelloWorld
        /\ (code = ExampleProgram /\ ZeroFree(state.inputs)) =>
               result = HelloWorld \o Echoed(state.inputs)

\* the example has halted after echoing the input 65, 200
C8_Witness == pc = "done" /\ code = ExampleProgram /\ state.inputs = <<65, 200>>

\* the claim as stated: 13 bytes ending in a newline, then the input as is
C8_HelloWorldAsClaimed ==
    pc = "done" =>
        /\ (code = HelloProgram /\ state.inputs = <<>>) => result = HelloWorld \o <<10>>
        /\ (code = ExampleProgram /\ ZeroFree(state.inputs)) =>
               result = HelloWorld \o <<10>> \o state.inputs

----------------------------------------------------------------------------
(* C9, under SpecCopy: +[>+<-] from a state whose current cell holds v and *)
(* whose other cells are 0 halts with code_ptr = 7, the starting cell 0,   *)
(* mem_ptr where it started and the next cell (v + 1) mod 256: 4 for v = 3 *)
StartCell == start.mem[start.mem_ptr]

CopyResult == (StartCell + 1) % 256

C9_CopyLoop ==
    /\ pc # "error"
    /\ steps <= 2 + 5 * CopyResult
    /\ (pc = "running" /\ steps = StepCap) => ~(state.code_ptr < Len(code))
    /\ pc = "done" =>
        /\ state.code_ptr = 7
        /\ state.mem_ptr = start.mem_ptr
        /\ state.mem = [i \in DOMAIN start.mem |->
                           IF i = start.mem_ptr + 1 THEN CopyResult ELSE 0]

\* the loop has halted from the starting cell 3
C9_Witness == pc = "done" /\ StartCell = 3 /\ state.mem[state.mem_ptr + 1] = 4

\* the claim as stated: the next cell ends equal to the starting cell
C9_CopyLoopAsClaimed ==
    (pc = "done" /\ StartCell = 3) =>
        /\ state.code_ptr = 7
        /\ state.mem_ptr = start.mem_ptr
        /\ state.mem[state.mem_ptr] = 0
        /\ state.mem[state.mem_ptr + 1] = 3

----------------------------------------------------------------------------
(* Vocabulary of the bracket properties, by counting and not by scanning.  *)

\* every ']' closes an earlier '[' and every '[' is closed
Balanced(prog) ==
    /\ \A j \in 1..Len(prog) : Balance(prog, 1, j) >= 0
    /\ Balance(prog, 1, Len(prog)) = 0

\* the ']' at position j has no structurally matching '[' before it
NoOpenFor(prog, j) == \A i \in 1..j : Balance(prog, i, j) < 0

\* the position of the ']' matching the '[' at position i
MatchClose(prog, i) ==
    CHOOSE j \in i..Len(prog) :
        Balance(prog, i, j) = 0 /\ \A k \in i..(j - 1) : Balance(prog, i, k) > 0

\* the position of the '[' matching the ']' at position j
MatchOpen(prog, j) ==
    CHOOSE i \in 1..j :
        Balance(prog, i, j) = 0 /\ \A k \in (i + 1)..j : Balance(prog, k, j) < 0

\* the 0-based position of the bracket matching the one at 0-based from
StructuralMatch(prog, from) ==
    IF prog[from + 1] = OrdOpen THEN MatchClose(prog, from + 1) - 1
    ELSE MatchOpen(prog, from + 1) - 1

----------------------------------------------------------------------------
(* C11, under SpecScan: on a balanced program the scan from any bracket    *)
(* ends at a bracket of the other kind, and the scan back from there, the  *)
(* other way, ends at the bracket the first scan began at.                 *)
C11_Involution ==
    Balanced(code) =>
        /\ probe.phase # "failed"
        /\ probe.iters <= Len(code)
        /\ (probe.phase = "found" /\ probe.leg = 1) =>
               /\ 0 <= probe.p /\ probe.p < Len(code)
               /\ {code[probe.origin + 1], code[probe.p + 1]} = {OrdOpen, OrdClose}
        /\ (probe.phase = "found" /\ probe.leg = 2) => probe.p = probe.origin

\* [[]]: the outer '[' resolved to the last ']' and that one back to it
C11_Witness ==
    /\ code = <<OrdOpen, OrdOpen, OrdClose, OrdClose>>
    /\ probe.phase = "found"
    /\ probe.leg = 2
    /\ probe.origin = 0
    /\ probe.from = 3
    /\ probe.p = 0

----------------------------------------------------------------------------
(* C12: on a balanced program, with mem_ptr on the tape, a '[' step on a   *)
(* zero cell and a ']' step on a non-zero cell set code_ptr one past the   *)
(* structurally matching bracket, the other two cases set it to            *)
(* code_ptr + 1, and all four leave every other field unchanged.           *)
C12_LoopStep ==
    (Running /\ Balanced(code) /\ Inst \in {OrdOpen, OrdClose} /\ InRange) =>
        LET v == state.mem[state.mem_ptr]
            target == IF Inst = OrdOpen /\ v = 0 THEN MatchClose(code, InstPos)
                      ELSE IF Inst = OrdClose /\ v # 0 THEN MatchOpen(code, InstPos)
                      ELSE state.code_ptr + 1
        IN  /\ pc' = "running"
            /\ state' = [state EXCEPT !.code_ptr = target]

C12_LoopSemantics == [][C12_LoopStep]_vars

\* ++[<[]>-]: the outer ']' was taken on the cell value 1, over the inner
\* pair, back to the first instruction of the body
C12_Witness ==
    /\ pc = "running"
    /\ code = <<OrdPlus, OrdPlus, OrdOpen, OrdLt, OrdOpen, OrdClose, OrdGt, OrdMinus, OrdClose>>
    /\ state.code_ptr = 3
    /\ InRange
    /\ state.mem[state.mem_ptr] = 1

----------------------------------------------------------------------------
(* C13: input_ptr stays within 0..len(inputs): a ',' on exhausted input    *)
(* leaves it unchanged.  It fails: read_input adds 1 to input_ptr on every *)
(* ',' (program , on the empty input ends with input_ptr = 1).             *)
C13_InputPtrBounded == 0 <= state.input_ptr /\ state.input_ptr <= Len(state.inputs)

----------------------------------------------------------------------------
(* C14: a ']' with no structurally matching '[' before it, executed on a   *)
(* non-zero cell, fails the run in the bracket scan.  It fails: the scan   *)
(* of +][ examines code[-1], the '[' at the end of the buffer, returns -1  *)
(* and the run goes on at code_ptr 0.                                      *)
C14_UnmatchedCloseStep ==
    (/\ Running
     /\ Inst = OrdClose
     /\ InRange
     /\ state.mem[state.mem_ptr] # 0
     /\ NoOpenFor(code, InstPos)) => (pc' = "error" /\ err' = "bracket")

C14_UnmatchedCloseFails == [][C14_UnmatchedCloseStep]_vars

----------------------------------------------------------------------------
(* C15: across every step the output keeps what it held as a prefix, grows *)
(* by exactly one element on a '.' step and is unchanged by every other    *)
(* instruction.  It fails: a '.' on a cell value of 128 or more appends    *)
(* two elements (C1).                                                      *)
IsPrefix(a, b) == Len(a) <= Len(b) /\ SubSeq(b, 1, Len(a)) = a

C15_OutputStep ==
    /\ IsPrefix(state.output_str, state'.output_str)
    /\ (Running /\ Inst = OrdDot /\ pc' = "running") =>
           Len(state'.output_str) = Len(state.output_str) + 1
    /\ ~(Running /\ Inst = OrdDot) => state'.output_str = state.output_str

C15_OutputAppendOnly == [][C15_OutputStep]_vars

----------------------------------------------------------------------------
(* C16: the tape keeps its length and inputs its value in every reachable  *)
(* state; no step changes a cell other than the one at mem_ptr; '<', '>',  *)
(* '[', ']', '.' and bytes that are no instruction leave the tape          *)
(* unchanged; ',' on the tape stores the byte read in the cell at mem_ptr. *)
C16_TapeShape == DOMAIN state.mem = DOMAIN start.mem /\ state.inputs = start.inputs

C16_TapeStep ==
    /\ \A i \in DOMAIN state.mem : i # state.mem_ptr => state'.mem[i] = state.mem[i]
    /\ ~(Running /\ Inst \in {OrdPlus, OrdMinus, OrdComma}) => state'.mem = state.mem
    /\ (Running /\ Inst = OrdComma /\ InRange) =>
           state'.mem = [state.mem EXCEPT ![state.mem_ptr] =
                            IF state.input_ptr < Len(state.inputs)
                            THEN state.inputs[state.input_ptr + 1] ELSE 0]
    /\ (Running /\ Inst \in {OrdPlus, OrdMinus} /\ InRange) =>
           state'.mem = [state.mem EXCEPT ![state.mem_ptr] = state'.mem[state.mem_ptr]]

C16_OneCellPerStep == []C16_TapeShape /\ [][C16_TapeStep]_vars

\* <,> on a tape of two cells: 65 was stored in cell 0 alone and mem_ptr
\* is back on cell 1
C16_Witness ==
    /\ pc = "running"
    /\ code = <<OrdLt, OrdComma, OrdGt>>
    /\ state.code_ptr = 3
    /\ state.mem = [i \in 0..1 |-> IF i = 0 THEN 65 ELSE 0]
    /\ state.mem_ptr = 1

----------------------------------------------------------------------------
(* C17, under SpecScan: on a balanced program the scan from any bracket    *)
(* starts with the counter 1 at that bracket, examines only positions of   *)
(* the program, keeps the counter at 1 or more at every position before    *)
(* the structurally matching bracket, stops within len(code) iterations at *)
(* that bracket, the first position where the counter is 0, and returns    *)
(* it; matching_bracket yields the same position.                          *)

\* the counter by counting: the brackets between the start and p, inclusive
CountedDepth ==
    IF probe.direction = 1 THEN Balance(code, probe.from + 1, probe.p + 1)
    ELSE 0 - Balance(code, probe.p + 1, probe.from + 1)

C17_ScanTerminates ==
    (Balanced(code) /\ probe.phase # "idle") =>
        /\ probe.phase # "failed"
        /\ probe.iters <= Len(code)
        /\ 0 <= probe.p /\ probe.p < Len(code)
        /\ probe.iters = 0 => (probe.c = 1 /\ probe.p = probe.from)
        /\ probe.c = CountedDepth
        /\ probe.p # StructuralMatch(code, probe.from) => (probe.c >= 1 /\ probe.phase = "loop")
        /\ probe.p = StructuralMatch(code, probe.from) => probe.c = 0
        /\ probe.phase = "found" =>
               LET m == matching_bracket(code, probe.from, probe.direction)
               IN  /\ m.ok
                   /\ m.pos = probe.p
                   /\ Len(m.seen) = probe.iters
                   /\ \A k \in DOMAIN m.seen : 0 <= m.seen[k] /\ m.seen[k] < Len(code)

\* [[]]: the scan from the outer '[' passed the inner pair and stopped on
\* the last ']' after three iterations
C17_Witness ==
    /\ code = <<OrdOpen, OrdOpen, OrdClose, OrdClose>>
    /\ probe.phase = "found"
    /\ probe.leg = 1
    /\ probe.from = 0
    /\ probe.p = 3
    /\ probe.iters = 3

----------------------------------------------------------------------------
(* C18: a '<' or '>' step never fails and changes mem_ptr by -1 or +1 and  *)
(* code_ptr by +1 and nothing else, wherever mem_ptr ends; a run fails on  *)
(* the tape bounds only at an instruction that accesses the cell, with     *)
(* mem_ptr off the tape.                                                   *)
C18_MoveStep ==
    /\ (Running /\ Inst \in {OrdLt, OrdGt}) =>
           /\ pc' = "running"
           /\ state' = [state EXCEPT !.code_ptr = state.code_ptr + 1,
                                     !.mem_ptr = IF Inst = OrdLt THEN @ - 1 ELSE @ + 1]
    /\ (pc = "running" /\ pc' = "error" /\ err' = "bounds") =>
           /\ Inst \in {OrdPlus, OrdMinus, OrdOpen, OrdClose, OrdComma, OrdDot}
           /\ ~InRange

C18_MovesNeverFail == [][C18_MoveStep]_vars

\* ><+ on a tape of one cell: the pointer left the tape, came back, and the
\* '+' ran without error
C18_Witness ==
    /\ pc = "running"
    /\ code = <<OrdGt, OrdLt, OrdPlus>>
    /\ Cardinality(DOMAIN state.mem) = 1
    /\ state.code_ptr = 3
    /\ state.mem_ptr = 0
    /\ state.mem[0] = 1

----------------------------------------------------------------------------
(* C19: on a balanced program 0 <= code_ptr <= len(code) in every          *)
(* reachable state; an instruction is executed only from                   *)
(* 0 <= code_ptr < len(code) and the loop exits only from                  *)
(* code_ptr >= len(code); after the exit code_ptr = len(code) and the      *)
(* value returned is the output of that state.                             *)
C19_CodePtrRange ==
    Balanced(code) =>
        /\ 0 <= state.code_ptr /\ state.code_ptr <= Len(code)
        /\ pc = "done" => (state.code_ptr = Len(code) /\ result = state.output_str)

C19_LoopStep ==
    Balanced(code) =>
        /\ steps' # steps => (0 <= state.code_ptr /\ state.code_ptr < Len(code))
        /\ (pc = "running" /\ pc' = "done") =>
               (state.code_ptr >= Len(code) /\ state' = state /\ steps' = steps)

C19_CodePtrInProgram == []C19_CodePtrRange /\ [][C19_LoopStep]_vars

\* [[]x]+ has skipped its loop, run the '+' and returned
C19_Witness ==
    /\ pc = "done"
    /\ code = <<OrdOpen, OrdOpen, OrdClose, OrdOther, OrdClose, OrdPlus>>
    /\ state.code_ptr = 6
    /\ steps = 2

----------------------------------------------------------------------------
(* C20: every step that is not a ']' on a non-zero cell and does not fail  *)
(* strictly increases code_ptr; so in a program without ']' code_ptr is at *)
(* least the number of steps executed, the run halts or fails within       *)
(* len(code) steps, and the empty program returns the empty output after   *)
(* no step.                                                                *)
NoClose(prog) == \A k \in DOMAIN prog : prog[k] # OrdClose

C20_AdvanceStep ==
    (/\ Running
     /\ pc' = "running"
     /\ ~(Inst = OrdClose /\ read_mem_ok(state) /\ read_mem(state) # 0)) =>
        state'.code_ptr > state.code_ptr

C20_NoCloseRun ==
    /\ NoClose(code) =>
           /\ steps <= Len(code)
           /\ pc = "running" => state.code_ptr >= steps
           /\ (pc = "running" /\ state.code_ptr < Len(code)) => steps < StepCap
    /\ (code = <<>> /\ pc = "done") => (steps = 0 /\ result = <<>>)
    /\ code = <<>> => pc # "error"

C20_OnlyBackJumpsRepeat == []C20_NoCloseRun /\ [][C20_AdvanceStep]_vars

\* +[x, a program without ']', has returned after three steps
C20_Witness ==
    /\ pc = "done"
    /\ code = <<OrdPlus, OrdOpen, OrdOther>>
    /\ steps = 3

====
